---------------------------- MODULE Spec2Model ----------------------------
(***************************************************************************)
(* A model of the JAMB support reply pipeline: the reply client            *)
(* (GeminiProcessor: credential pool, rate limiter, generate_reply under   *)
(* the tenacity retry wrapper, parse_and_validate_reply), the batch        *)
(* handler process_tickets_batch and the batch loop of main.               *)
(*                                                                         *)
(* Time is counted in seconds.  The only thing the code does with a time   *)
(* stamp is to compare "now - last_reset_time" with one minute, so the     *)
(* model keeps that difference (since_reset), saturated at WINDOW.         *)
(*                                                                         *)
(* A text (a provider response, a reply) is a sequence of tokens: the      *)
(* markers the code looks for (a code fence, a quote, "Hello", ...)        *)
(* are one token each and "text" stands for any other run of characters.   *)
(***************************************************************************)
EXTENDS Integers, Sequences, FiniteSets, TLC

\* ------------------------------------------------------------ constants
MAX_RETRIES == 10
API_CALL_LIMIT == 10
MAX_PARALLEL_TABS == 3
SAVE_INTERVAL == 3
MINIMUM_MESSAGE_LENGTH == 1
\* timedelta(minutes=1) of check_rate_limit, in seconds
WINDOW == 60
\* wait_exponential(multiplier=1, min=4, max=120) of the retry wrapper
WAIT_MULTIPLIER == 1
WAIT_MIN == 4
WAIT_MAX == 120
\* asyncio.sleep(60) of process_tickets_with_gemini
BATCH_PAUSE == 60

\* ------------------------------------------------------------ bounds
\* the largest number of GEMINI_API_KEY_i entries found in the environment
MaxKeys == 2

Min(a, b) == IF a <= b THEN a ELSE b
Max(a, b) == IF a >= b THEN a ELSE b

RECURSIVE Pow2(_)
Pow2(n) == IF n <= 0 THEN 1 ELSE 2 * Pow2(n - 1)

\* ------------------------------------------------------------ texts
WS == " "
QUOTE == "\""
\* the seven characters that open a fenced json block, and the three that close it
FENCE_JSON == "<fence>json"
FENCE == "<fence>"

RECURSIVE LStrip(_)
LStrip(s) == IF s # <<>> /\ Head(s) = WS THEN LStrip(Tail(s)) ELSE s

RECURSIVE RStrip(_)
RStrip(s) ==
    IF s # <<>> /\ s[Len(s)] = WS THEN RStrip(SubSeq(s, 1, Len(s) - 1)) ELSE s

\* str.strip()
Strip(s) == RStrip(LStrip(s))

\* `token in text`
Contains(s, t) == \E i \in 1..Len(s) : s[i] = t

\* text.startswith(token)
StartsWith(s, t) == s # <<>> /\ Head(s) = t

\* text.endswith(token)
EndsWith(s, t) == s # <<>> /\ s[Len(s)] = t

\* str.find of a quote followed by Hello: the least index, 0 when absent (-1 in Python)
FindQuoteHello(s) ==
    LET hits == {i \in 1..(Len(s) - 1) : s[i] = QUOTE /\ s[i + 1] = "Hello"}
    IN  IF hits = {} THEN 0 ELSE CHOOSE i \in hits : \A j \in hits : i <= j

\* str.rfind of a quote: the greatest index, 0 when absent
RFindQuote(s) ==
    LET hits == {i \in 1..Len(s) : s[i] = QUOTE}
    IN  IF hits = {} THEN 0 ELSE CHOOSE i \in hits : \A j \in hits : i >= j

\* ------------------------------------------------------------ json.loads
\* The JSON documents of the model: a string, or an object whose members are
\* strings.  Anything else is a JSONDecodeError.
JsonError == [ok |-> FALSE, type |-> "error", items |-> <<>>, str |-> <<>>, rest |-> <<>>]

\* a JSON string at the head of s: the tokens between two quotes
JsonString(s) ==
    IF s = <<>> \/ Head(s) # QUOTE THEN JsonError
    ELSE LET closing == {i \in 2..Len(s) : s[i] = QUOTE}
         IN  IF closing = {} THEN JsonError
             ELSE LET j == CHOOSE i \in closing : \A k \in closing : i <= k
                  IN  [ok |-> TRUE, type |-> "str", items |-> <<>>,
                       str |-> SubSeq(s, 2, j - 1),
                       rest |-> SubSeq(s, j + 1, Len(s))]

\* dict[key] = value, keeping the position of a key already present
DictPut(items, k, v) ==
    IF \E i \in 1..Len(items) : items[i].key = k
    THEN [i \in 1..Len(items) |->
            IF items[i].key = k THEN [key |-> k, value |-> v] ELSE items[i]]
    ELSE Append(items, [key |-> k, value |-> v])

\* The members of an object after "{" or ",": "key": "value", then "," or "}".
\* JsonMembers reads the key, JsonColon the colon, JsonMemberValue the value and
\* JsonMemberEnd what follows it.
RECURSIVE JsonMembers(_, _)

JsonMemberEnd(afterValue, items) ==
    IF afterValue = <<>> THEN JsonError
    ELSE IF Head(afterValue) = "}"
    THEN [ok |-> TRUE, type |-> "dict", items |-> items, str |-> <<>>,
          rest |-> Tail(afterValue)]
    ELSE IF Head(afterValue) = "," THEN JsonMembers(Tail(afterValue), items)
    ELSE JsonError

JsonMemberValue(key, v, items) ==
    IF ~v.ok THEN JsonError
    ELSE JsonMemberEnd(LStrip(v.rest), DictPut(items, key, v.str))

JsonColon(key, afterKey, items) ==
    IF afterKey = <<>> \/ Head(afterKey) # ":" THEN JsonError
    ELSE JsonMemberValue(key, JsonString(LStrip(Tail(afterKey))), items)

JsonKey(k, items) ==
    IF ~k.ok THEN JsonError ELSE JsonColon(k.str, LStrip(k.rest), items)

JsonMembers(s, items) == JsonKey(JsonString(LStrip(s)), items)

JsonObject(body) ==
    IF body # <<>> /\ Head(body) = "}"
    THEN [ok |-> TRUE, type |-> "dict", items |-> <<>>, str |-> <<>>,
          rest |-> Tail(body)]
    ELSE JsonMembers(body, <<>>)

\* t has no leading white space
JsonValueAt(t) ==
    IF t = <<>> THEN JsonError
    ELSE IF Head(t) = QUOTE THEN JsonString(t)
    ELSE IF Head(t) = "{" THEN JsonObject(LStrip(Tail(t)))
    ELSE JsonError

JsonValue(s) == JsonValueAt(LStrip(s))

JsonComplete(v) == IF v.ok /\ LStrip(v.rest) = <<>> THEN v ELSE JsonError

\* json.loads: one value and nothing but white space after it
JsonLoads(s) == JsonComplete(JsonValue(s))

\* ------------------------------------------------------------ validation.py
validate_message(message) ==
    IF /\ message.agent_name = "Unknown Sender"
       /\ message.timestamp \in {"N/A", "Unknown Time"}
       /\ Contains(message.content, "Message * write here...")
       /\ Contains(message.content, "File Type:")
       /\ Contains(message.content, "Max file size:")
    THEN FALSE
    ELSE IF Len(Strip(message.content)) < MINIMUM_MESSAGE_LENGTH THEN FALSE
    ELSE IF /\ message.agent_name = "Unknown Sender"
            /\ message.timestamp = "Unknown Time"
    THEN FALSE
    ELSE TRUE

\* ------------------------------------------------------------ parse_and_validate_reply
Accepted(content) == [ok |-> TRUE, content |-> content]
\* every failure leaves parse_and_validate_reply as APIResponseValidationError
Rejected == [ok |-> FALSE, content |-> <<>>]

\* cleaned_reply[7:] after a leading fence
StripLeadingFence(cleaned) ==
    IF StartsWith(cleaned, FENCE_JSON) THEN Tail(cleaned) ELSE cleaned

\* cleaned_reply[:-3] before a trailing fence
StripTrailingFence(cleaned) ==
    IF EndsWith(cleaned, FENCE) THEN SubSeq(cleaned, 1, Len(cleaned) - 1) ELSE cleaned

StripFences(cleaned) == StripTrailingFence(StripLeadingFence(cleaned))

\* except json.JSONDecodeError: direct content extraction
\* cleaned_reply[content_start + 1 : content_end], returned as it is
ExtractAt(cleaned_reply, content_start, content_end) ==
    IF content_start # 0 /\ content_end # 0
    THEN Accepted(SubSeq(cleaned_reply, content_start + 1, content_end - 1))
    ELSE Rejected

DirectExtraction(cleaned_reply) ==
    ExtractAt(cleaned_reply, FindQuoteHello(cleaned_reply), RFindQuote(cleaned_reply))

\* the value of the first key that starts with Hello
FirstHelloValue(items) ==
    LET hits == {i \in 1..Len(items) : StartsWith(items[i].key, "Hello")}
    IN  items[CHOOSE i \in hits : \A j \in hits : i <= j].value

\* the message built around content, and its validation
ValidatedContent(content) ==
    IF validate_message([agent_name |-> "JAMB Support",
                         timestamp |-> "%Y-%m-%d %H:%M:%S",
                         content |-> content])
    THEN Accepted(content)
    ELSE Rejected

\* json.loads succeeded
FromJson(parsed_reply) ==
    IF /\ parsed_reply.type = "dict"
       /\ \E i \in 1..Len(parsed_reply.items) :
             StartsWith(parsed_reply.items[i].key, "Hello")
    THEN ValidatedContent(FirstHelloValue(parsed_reply.items))
    ELSE Rejected

ParseCleaned(cleaned_reply, parsed_reply) ==
    IF ~parsed_reply.ok THEN DirectExtraction(cleaned_reply) ELSE FromJson(parsed_reply)

ParseStripped(cleaned_reply) == ParseCleaned(cleaned_reply, JsonLoads(cleaned_reply))

parse_and_validate_reply(raw_reply) == ParseStripped(StripFences(Strip(raw_reply)))

\* ------------------------------------------------------------ provider
\* What model.generate_content does with one request: it raises, or it answers
\* with a text.  API_KEY_INVALID stands for an InvalidArgument whose message
\* holds that word, InvalidArgument for one whose message does not, and
\* ServiceUnavailable for any other exception.
ProviderErrors ==
    {"ResourceExhausted", "API_KEY_INVALID", "InvalidArgument", "ServiceUnavailable"}

\* {"content": "Hello ... JAMB Support"}, the payload of unit_test.py
R_ENVELOPE ==
    <<"{", QUOTE, "content", QUOTE, ":", QUOTE, "Hello", "text", "JAMB Support", QUOTE, "}">>
\* {"Hello [name], JAMB Support ..."}, the format construct_prompt asks for, with
\* its placeholder left in
R_TEMPLATE == <<"{", QUOTE, "Hello", "[", "name", "]", "JAMB Support", QUOTE, "}">>
\* Invalid JSON
R_INVALID == <<"text">>

ProviderTexts == {R_ENVELOPE, R_TEMPLATE, R_INVALID}

Raises(e) == [err |-> e, text |-> <<>>]
Answers(t) == [err |-> "none", text |-> t]

ProviderResponses ==
    {Raises(e) : e \in ProviderErrors} \cup {Answers(t) : t \in ProviderTexts}

\* ------------------------------------------------------------ APIKeyManager
KeyNames == <<"key1", "key2", "key3", "key4", "key5", "key6", "key7", "key8", "key9", "key10">>

\* {i: 0 for i in range(len(api_keys))}
NoUsage(api_keys) == [k \in 0..(Len(api_keys) - 1) |-> 0]

\* APIKeyManager(api_keys); usage_since_reset is the time since its last_reset_time
NewManager(n) ==
    [api_keys |-> SubSeq(KeyNames, 1, n),
     current_key_index |-> 0,
     key_usage |-> NoUsage(SubSeq(KeyNames, 1, n)),
     usage_since_reset |-> 0]

get_current_key(p) == p.api_keys[p.current_key_index + 1]

\* a rotation that runs past the end of the list
RotateKeyNoWrap(p) == [p EXCEPT !.current_key_index = p.current_key_index + 1]

\* a rotation that skips a credential
RotateKeySkipsOne(p) ==
    [p EXCEPT !.current_key_index = (p.current_key_index + 2) % Len(p.api_keys)]

rotate_key(p) ==
    [p EXCEPT !.current_key_index = (p.current_key_index + 1) % Len(p.api_keys)]

\* _check_reset: a minute or more after the last reset every counter is cleared
check_reset(m) ==
    IF m.usage_since_reset >= WINDOW
    THEN [m EXCEPT !.key_usage = NoUsage(m.api_keys), !.usage_since_reset = 0]
    ELSE m

\* increment_usage: the active counter is raised, then _check_reset runs
increment_usage(m) ==
    check_reset([m EXCEPT !.key_usage[m.current_key_index] = m.key_usage[m.current_key_index] + 1])

RECURSIVE MinFrom(_, _, _)

\* min(...) from key k on, best being the least so far: a later key replaces it
\* only when its value is smaller
MinFrom(key_usage, k, best) ==
    IF k \notin DOMAIN key_usage THEN best
    ELSE MinFrom(key_usage, k + 1, IF key_usage[k] < key_usage[best] THEN k ELSE best)

\* a min that keeps the last of the least values
LeastUsedIndexLast(key_usage) ==
    CHOOSE a \in DOMAIN key_usage :
        \A b \in DOMAIN key_usage :
            key_usage[a] < key_usage[b] \/ (key_usage[a] = key_usage[b] /\ b <= a)

\* min(self.key_usage, key=self.key_usage.get): the dict is walked in the order its
\* keys were inserted, 0, 1, ..., N - 1
LeastUsedIndex(key_usage) == MinFrom(key_usage, 1, 0)

get_least_used_key(m) == [m EXCEPT !.current_key_index = LeastUsedIndex(m.key_usage)]

\* ------------------------------------------------------------ GeminiProcessor
\* a reinitialisation that also opens a new window of the rate limiter
InitializeGeminiNewWindow(p) ==
    [p EXCEPT !.configured_key = get_current_key(p), !.api_call_count = 0, !.since_reset = 0]

\* genai.configure(api_key=get_current_key())
initialize_gemini(p) == [p EXCEPT !.configured_key = get_current_key(p)]

\* GeminiProcessor(...) with n keys in the environment. api_keys, current_key_index
\* and key_usage are those of its api_key_manager; the manager's own last_reset_time
\* is left out here, because only increment_usage reads it and no method of
\* GeminiProcessor calls increment_usage.
NewProcessor(n) ==
    initialize_gemini([api_keys |-> SubSeq(KeyNames, 1, n),
                       current_key_index |-> 0,
                       key_usage |-> NoUsage(SubSeq(KeyNames, 1, n)),
                       api_call_count |-> 0,
                       since_reset |-> 0,
                       configured_key |-> "none"])

\* the clocks are followed up to a little past the window
ClockCap == WINDOW + 4

\* d seconds pass
Advance(p, d) == [p EXCEPT !.since_reset = Min(p.since_reset + d, ClockCap)]

\* a limiter that lets one call more through
CheckRateLimitPastLimit(p) ==
    LET q == IF p.since_reset >= WINDOW
             THEN [p EXCEPT !.api_call_count = 0, !.since_reset = 0]
             ELSE p
    IN  IF q.api_call_count > API_CALL_LIMIT
        THEN [processor |-> q, raised |-> TRUE]
        ELSE [processor |-> [q EXCEPT !.api_call_count = q.api_call_count + 1],
              raised |-> FALSE]

\* a limiter that counts the calls it rejects
CheckRateLimitCountsRejected(p) ==
    LET q == IF p.since_reset >= WINDOW
             THEN [p EXCEPT !.api_call_count = 0, !.since_reset = 0]
             ELSE p
    IN  [processor |-> [q EXCEPT !.api_call_count = q.api_call_count + 1],
         raised |-> q.api_call_count >= API_CALL_LIMIT]

\* a limiter whose window ends only after more than a minute
CheckRateLimitStrictWindow(p) ==
    LET q == IF p.since_reset > WINDOW
             THEN [p EXCEPT !.api_call_count = 0, !.since_reset = 0]
             ELSE p
    IN  IF q.api_call_count >= API_CALL_LIMIT
        THEN [processor |-> q, raised |-> TRUE]
        ELSE [processor |-> [q EXCEPT !.api_call_count = q.api_call_count + 1],
              raised |-> FALSE]

\* raised: RateLimitExceededError
check_rate_limit(p) ==
    LET q == IF p.since_reset >= WINDOW
             THEN [p EXCEPT !.api_call_count = 0, !.since_reset = 0]
             ELSE p
    IN  IF q.api_call_count >= API_CALL_LIMIT
        THEN [processor |-> q, raised |-> TRUE]
        ELSE [processor |-> [q EXCEPT !.api_call_count = q.api_call_count + 1],
              raised |-> FALSE]

\* a handler that rotates and leaves the client configured as it was
OnResourceExhaustedStale(p) ==
    [processor |-> rotate_key(p), exc |-> "RateLimitExceededError"]

\* except ResourceExhausted: rotate, reinitialise, raise RateLimitExceededError
OnResourceExhausted(p) ==
    [processor |-> initialize_gemini(rotate_key(p)), exc |-> "RateLimitExceededError"]

\* a handler that takes every InvalidArgument for an invalid credential
InvalidArgumentAlwaysRotates(p, e) ==
    [processor |-> initialize_gemini(rotate_key(p)), exc |-> "APIKeyInvalidError"]

\* except InvalidArgument: rotate and raise APIKeyInvalidError on API_KEY_INVALID, else re-raise
OnInvalidArgument(p, e) ==
    IF e = "API_KEY_INVALID"
    THEN [processor |-> initialize_gemini(rotate_key(p)), exc |-> "APIKeyInvalidError"]
    ELSE [processor |-> p, exc |-> e]

\* except Exception: re-raise
OnException(p, e) == [processor |-> p, exc |-> e]

BodyResult(h, value, called, key) ==
    [processor |-> h.processor, exc |-> h.exc, value |-> value,
     called |-> called, key |-> key]

\* a body that takes a rejected reply for an exhausted credential
OnResponseRotatesOnRejection(p, parsed) ==
    IF parsed.ok
    THEN BodyResult([processor |-> p, exc |-> "none"], parsed.content, TRUE, p.configured_key)
    ELSE BodyResult(OnResourceExhausted(p), <<>>, TRUE, p.configured_key)

\* return self.parse_and_validate_reply(response.text)
OnResponse(p, parsed) ==
    IF parsed.ok
    THEN BodyResult([processor |-> p, exc |-> "none"], parsed.content, TRUE, p.configured_key)
    ELSE BodyResult(OnException(p, "APIResponseValidationError"), <<>>, TRUE, p.configured_key)

\* response = self.model.generate_content(prompt), and what the body does with it
ProviderCall(p, resp) ==
    IF resp.err = "ResourceExhausted"
    THEN BodyResult(OnResourceExhausted(p), <<>>, TRUE, p.configured_key)
    ELSE IF resp.err \in {"API_KEY_INVALID", "InvalidArgument"}
    THEN BodyResult(OnInvalidArgument(p, resp.err), <<>>, TRUE, p.configured_key)
    ELSE IF resp.err # "none"
    THEN BodyResult(OnException(p, resp.err), <<>>, TRUE, p.configured_key)
    ELSE OnResponse(p, parse_and_validate_reply(resp.text))

\* a body that calls the provider whatever check_rate_limit did
AfterRateLimitCallsAnyway(rl, resp, d) == ProviderCall(Advance(rl.processor, d), resp)

AfterRateLimit(rl, resp, d) ==
    IF rl.raised
    THEN BodyResult(OnException(rl.processor, "RateLimitExceededError"), <<>>, FALSE, "none")
    ELSE ProviderCall(Advance(rl.processor, d), resp)

\* The body of generate_reply, run once by the retry wrapper: the first pass of
\* its for loop, which every branch leaves.  resp is the provider's answer if
\* the call is issued and d the seconds the call takes.
\* exc: the exception the body raises, "none" when it returns value.
\* called: whether the provider was called; key: the credential it was called with.
GenerateReplyBody(p, resp, d) == AfterRateLimit(check_rate_limit(p), resp, d)

\* a wrapper that does not retry RateLimitExceededError
RetryIfNotRateLimit(exc) == exc \in {"ResourceExhausted", "APIKeyInvalidError"}

\* ------------------------------------------------------------ the retry wrapper
\* retry=retry_if_exception_type(...): the exceptions the wrapper retries
RetryIf(exc) ==
    exc \in {"ResourceExhausted", "APIKeyInvalidError", "RateLimitExceededError"}

\* a wrapper that stops one attempt late
StopAfterAttemptLate(attempt_number) == attempt_number > MAX_RETRIES

\* stop=stop_after_attempt(MAX_RETRIES)
StopAfterAttempt(attempt_number) == attempt_number >= MAX_RETRIES

\* a wait that is not raised to the minimum
WaitExponentialNoMin(attempt_number) ==
    Min(WAIT_MULTIPLIER * Pow2(attempt_number - 1), WAIT_MAX)

\* wait=wait_exponential(multiplier=1, min=4, max=120): the sleep after attempt n
WaitExponential(attempt_number) ==
    Max(WAIT_MIN, Min(WAIT_MULTIPLIER * Pow2(attempt_number - 1), WAIT_MAX))

\* What the wrapper raises once it stops: without reraise=True that is its own
\* RetryError, which carries the last exception as its cause.
ExhaustedError(last_exc) == "RetryError"

\* The wrapper's verdict on attempt n, whose body raised exc ("none": returned)
AfterAttempt(attempt_number, exc) ==
    IF exc = "none" THEN [verdict |-> "return", raises |-> "none"]
    ELSE IF ~RetryIf(exc) THEN [verdict |-> "raise", raises |-> exc]
    ELSE IF StopAfterAttempt(attempt_number)
    THEN [verdict |-> "raise", raises |-> ExhaustedError(exc)]
    ELSE [verdict |-> "retry", raises |-> "none"]

NoResult == [kind |-> "none", value |-> <<>>, exc |-> "none", cause |-> "none"]
Returned(v) == [kind |-> "return", value |-> v, exc |-> "none", cause |-> "none"]
Raised(e, cause) == [kind |-> "raise", value |-> <<>>, exc |-> e, cause |-> cause]


\* ------------------------------------------------------------ generate_reply, whole
\* The provider as one call of generate_reply meets it: its answer to the call
\* of the first attempt, and its answer to the call of every later attempt.
Always(resp) == [first |-> resp, rest |-> resp]
Then(resp1, resp2) == [first |-> resp1, rest |-> resp2]

ScriptAt(script, attempt_number) ==
    IF attempt_number = 1 THEN script.first ELSE script.rest

Scripts == {Then(a, b) : a \in ProviderResponses, b \in ProviderResponses}

RECURSIVE GenerateReplyRun(_, _, _)

RunVerdict(b, after, attempt_number, script) ==
    IF after.verdict = "return"
    THEN [processor |-> b.processor, result |-> Returned(b.value)]
    ELSE IF after.verdict = "raise"
    THEN [processor |-> b.processor, result |-> Raised(after.raises, b.exc)]
    ELSE GenerateReplyRun(Advance(b.processor, WaitExponential(attempt_number)),
                          attempt_number + 1, script)

RunAfterBody(b, attempt_number, script) ==
    RunVerdict(b, AfterAttempt(attempt_number, b.exc), attempt_number, script)

\* attempts attempt_number, attempt_number + 1, ... of the wrapper, to the end; the
\* provider calls themselves take no time here, the waits between them do
GenerateReplyRun(p, attempt_number, script) ==
    RunAfterBody(GenerateReplyBody(p, ScriptAt(script, attempt_number), 0),
                 attempt_number, script)

\* self.generate_reply(prompt): the processor afterwards and what came back
generate_reply(p, script) == GenerateReplyRun(p, 1, script)

\* ------------------------------------------------------------ process_tickets_batch
RateLimitPlaceholder ==
    <<"Processing delayed due to rate limiting. Please try again later.">>

ErrorPlaceholder(e) ==
    <<"An error occurred:", e, "This ticket requires manual review.">>

\* a loop that leaves the ticket as it got it
WithoutReply(ticket, content) == ticket

WithReply(ticket, content) == [ticket EXCEPT !.next_reply = <<[content |-> content]>>]

\* a loop that does not save the ticket it got a reply for
BatchHandlerUnsavedReply(ticket, r) ==
    IF r.kind = "return"
    THEN [ticket |-> WithReply(ticket, r.value), save |-> FALSE, raises |-> "none"]
    ELSE IF r.exc = "RateLimitExceededError"
    THEN [ticket |-> WithReply(ticket, RateLimitPlaceholder), save |-> FALSE,
          raises |-> "none"]
    ELSE [ticket |-> WithReply(ticket, ErrorPlaceholder(r.exc)), save |-> TRUE,
          raises |-> "none"]

\* a loop that has no second except clause: other failures leave the batch
BatchHandlerAbortsOnFailure(ticket, r) ==
    IF r.kind = "return"
    THEN [ticket |-> WithReply(ticket, r.value), save |-> TRUE, raises |-> "none"]
    ELSE IF r.exc = "RateLimitExceededError"
    THEN [ticket |-> WithReply(ticket, RateLimitPlaceholder), save |-> FALSE,
          raises |-> "none"]
    ELSE [ticket |-> ticket, save |-> FALSE, raises |-> r.exc]

\* a loop whose second except clause does not save either
BatchHandlerUnsavedFailure(ticket, r) ==
    IF r.kind = "return"
    THEN [ticket |-> WithReply(ticket, r.value), save |-> TRUE, raises |-> "none"]
    ELSE [ticket |-> WithReply(ticket, ErrorPlaceholder(r.exc)), save |-> FALSE,
          raises |-> "none"]

\* One pass of the loop of process_tickets_batch, given what generate_reply did:
\* the ticket afterwards, whether save_single_ticket_to_json was called, and the
\* exception that leaves the loop ("none": both except clauses end the pass by
\* appending the ticket to the list the batch returns).
BatchHandler(ticket, r) ==
    IF r.kind = "return"
    THEN [ticket |-> WithReply(ticket, r.value), save |-> TRUE, raises |-> "none"]
    ELSE IF r.exc = "RateLimitExceededError"
    THEN [ticket |-> WithReply(ticket, RateLimitPlaceholder), save |-> FALSE,
          raises |-> "none"]
    ELSE [ticket |-> WithReply(ticket, ErrorPlaceholder(r.exc)), save |-> TRUE,
          raises |-> "none"]

\* save_single_ticket_to_json: the ticket is appended to the file of the day
save_single_ticket_to_json(file, ticket) == Append(file, ticket)

\* a ticket as process_ticket scrapes it
ScrapedTicket(id) == [ticket_id |-> id, next_reply |-> <<>>]

\* ------------------------------------------------------------ state
VARIABLES
    processor,      \* the GeminiProcessor: its key manager, rate limiter and client
    reply_pc,       \* generate_reply: "idle", "attempt", "wait" (the wrapper sleeps), "done"
    attempt,        \* the wrapper's attempt_number
    calls,          \* provider calls issued by this generate_reply
    rejected,       \* attempts of it that check_rate_limit rejected
    used,           \* the credential each of those calls was issued with
    first_call,     \* the provider's answer to the first of them
    only_invalid,   \* every attempt so far called the provider and got API_KEY_INVALID
    last_attempt,   \* what the last attempt did
    last_wait,      \* seconds the wrapper slept before the current attempt
    start_index,    \* current_key_index when generate_reply was called
    result,         \* what generate_reply returned or raised
    tickets,        \* process_tickets_batch: the list it was handed
    batch_pc,       \* process_tickets_batch: "idle", "running", "returned", "raised"
    batch_out,      \* process_tickets_batch: its local processed_tickets
    batch_exc,      \* the exception that left process_tickets_batch, if one did
    store,          \* the tickets file of the day that save_single_ticket_to_json appends to
    store_mark,     \* the length of that file when process_tickets_batch was called
    last_result,    \* what generate_reply did for the last ticket of batch_out
    gen_log,        \* the ticket ids generate_reply was called for, in order
    ticket_ids,     \* main: the ids extract_ticket_ids found
    processed_tickets, \* main: the list the scrape tasks append to
    i,              \* main: the index of the for loop
    batch,          \* main: the ids of the current batch
    tasks,          \* main: the process_ticket tasks of the batch still running
    main_pc,        \* main: "loop", "gather", "gemini", "remainder", "final", "done"
    checkpoint,     \* scraping_progress.json
    pauses,         \* the 60 s pauses of process_tickets_with_gemini so far
    manager,        \* an APIKeyManager used on its own
    rotation,       \* the index a run of rotate_key calls started from, and their number
    window_calls,   \* the check_rate_limit calls that succeeded since last_reset_time
    last_op,        \* the last method called on its own, and the object before the call
    env_keys,       \* the number of GEMINI_API_KEY_i set in the environment
    resume,         \* main: whether it was started again, and what it loaded at its start
    reply_text,     \* the raw reply handed to parse_and_validate_reply on its own
    parse_pc,       \* parse_and_validate_reply on its own: "idle", "done"
    parse_result,   \* what it returned, or that it raised
    ticket_data,    \* what extract_ticket_data returned for the ticket of the two scripts
    check_pc,       \* check_agent_last_reply.py: "loop", "done" for that ticket
    agent_last,     \* check_agent_last_reply.py: agent_last_reply_tickets
    close_pc,       \* close_ticket_agent_reply_last.py: "loop", "done" for that ticket
    closed_last,    \* close_ticket_agent_reply_last.py: agent_last_reply_tickets
    close_calls     \* close_ticket_agent_reply_last.py: the tickets close_ticket was called for

reply_vars ==
    <<reply_pc, attempt, calls, rejected, used, first_call, only_invalid, last_attempt,
      last_wait, start_index, result>>

batch_vars ==
    <<tickets, batch_pc, batch_out, batch_exc, store, store_mark, last_result, gen_log>>

main_vars == <<ticket_ids, processed_tickets, i, batch, tasks, main_pc, checkpoint, pauses>>

unit_vars == <<manager, rotation, window_calls, last_op>>

run_vars == <<env_keys, resume>>

parse_vars == <<reply_text, parse_pc, parse_result>>

script_vars == <<ticket_data, check_pc, agent_last, close_pc, closed_last, close_calls>>

\* the state outside one run of main and its GeminiProcessor
aux_vars == <<run_vars, parse_vars, script_vars>>

vars ==
    <<processor, reply_vars, batch_vars, main_vars, unit_vars, run_vars, parse_vars,
      script_vars>>

\* seconds that pass between two calls of generate_reply, and during a provider call
IdleDelays == {0, 4, WINDOW}
CallDurations == {0, 4}

NoAttempt ==
    [exc |-> "none", limited |-> FALSE, called |-> FALSE, err |-> "none",
     text |-> <<>>, index_before |-> 0, index_after |-> 0]

InitProcessor == \E n \in 1..MaxKeys : processor = NewProcessor(n)

InitReply ==
    /\ reply_pc = "idle"
    /\ attempt = 0
    /\ calls = 0
    /\ rejected = 0
    /\ used = <<>>
    /\ first_call = "none"
    /\ only_invalid = TRUE
    /\ last_attempt = NoAttempt
    /\ last_wait = 0
    /\ start_index = 0
    /\ result = NoResult

\* a caller calls generate_reply(prompt)
CallGenerateReply ==
    /\ reply_pc \in {"idle", "done"}
    /\ \E d \in IdleDelays : processor' = Advance(processor, d)
    /\ reply_pc' = "attempt"
    /\ attempt' = 1
    /\ calls' = 0
    /\ rejected' = 0
    /\ used' = <<>>
    /\ first_call' = "none"
    /\ only_invalid' = TRUE
    /\ last_attempt' = NoAttempt
    /\ last_wait' = 0
    /\ start_index' = processor.current_key_index
    /\ result' = NoResult
    /\ UNCHANGED <<batch_vars, main_vars, unit_vars, aux_vars>>

\* how an attempt's provider answer is remembered
AnswerKind(resp) == IF resp.err = "none" THEN "text" ELSE resp.err

\* the wrapper runs the body of generate_reply once and decides what follows
Attempt ==
    /\ reply_pc = "attempt"
    /\ \E resp \in ProviderResponses, d \in CallDurations :
          LET b == GenerateReplyBody(processor, resp, d)
              after == AfterAttempt(attempt, b.exc)
          IN  /\ processor' = b.processor
              /\ calls' = IF b.called THEN calls + 1 ELSE calls
              /\ rejected' = IF check_rate_limit(processor).raised
                              THEN rejected + 1 ELSE rejected
              /\ used' = IF b.called THEN Append(used, b.key) ELSE used
              /\ first_call' = IF b.called /\ calls = 0 THEN AnswerKind(resp) ELSE first_call
              /\ only_invalid' = (only_invalid /\ b.called /\ resp.err = "API_KEY_INVALID")
              /\ last_attempt' =
                    [exc |-> b.exc,
                     limited |-> check_rate_limit(processor).raised,
                     called |-> b.called,
                     err |-> IF b.called THEN resp.err ELSE "none",
                     text |-> IF b.called THEN resp.text ELSE <<>>,
                     index_before |-> processor.current_key_index,
                     index_after |-> b.processor.current_key_index]
              /\ reply_pc' = IF after.verdict = "retry" THEN "wait" ELSE "done"
              /\ result' = IF after.verdict = "return" THEN Returned(b.value)
                           ELSE IF after.verdict = "raise" THEN Raised(after.raises, b.exc)
                           ELSE NoResult
    /\ UNCHANGED <<attempt, last_wait, start_index, batch_vars, main_vars,
                   unit_vars, aux_vars>>

\* the wrapper sleeps and starts the next attempt
Backoff ==
    /\ reply_pc = "wait"
    /\ processor' = Advance(processor, WaitExponential(attempt))
    /\ last_wait' = WaitExponential(attempt)
    /\ attempt' = attempt + 1
    /\ reply_pc' = "attempt"
    /\ UNCHANGED <<calls, rejected, used, first_call, only_invalid, last_attempt, start_index,
                   result, batch_vars, main_vars, unit_vars, aux_vars>>

InitBatch ==
    /\ tickets = <<>>
    /\ batch_pc = "idle"
    /\ batch_out = <<>>
    /\ batch_exc = "none"
    /\ store = <<>>
    /\ store_mark = 0
    /\ last_result = NoResult
    /\ gen_log = <<>>

NoCheckpoint == [exists |-> FALSE, processed_tickets |-> <<>>, next_ticket_index |-> 0]

\* main has loaded nothing and was not started a second time
NoResume ==
    [restarted |-> FALSE, resumed |-> FALSE, from |-> 0, loaded |-> <<>>, store_mark |-> 0]

\* main at its first line, no scraping_progress.json on disk; n ticket ids will be
\* found on the page
InitMain(n) ==
    /\ ticket_ids = [k \in 1..n |-> k]
    /\ processed_tickets = <<>>
    /\ i = 0
    /\ batch = <<>>
    /\ tasks = {}
    /\ main_pc = "start"
    /\ checkpoint = NoCheckpoint
    /\ pauses = 0
    /\ resume = NoResume

NoOp(object) == [op |-> "none", raised |-> FALSE, before |-> object]

\* nothing has been called on its own yet
InitUnit ==
    /\ manager = NewManager(1)
    /\ rotation = [from |-> 0, count |-> 0]
    /\ window_calls = 0
    /\ last_op = NoOp(manager)

\* parse_and_validate_reply has not been called on its own
InitParse(texts) ==
    /\ reply_text \in texts
    /\ parse_pc = "idle"
    /\ parse_result = Rejected

\* a python None where a string is expected
None == "None"

\* extract_ticket_data returned None
NoTicketData == [found |-> FALSE, ticket_id |-> None, messages |-> <<>>]

\* a ticket the two scripts have not looked at
InitScripts(data) ==
    /\ ticket_data \in data
    /\ check_pc = "loop" /\ agent_last = <<>>
    /\ close_pc = "loop" /\ closed_last = <<>> /\ close_calls = <<>>

InitReplySpec ==
    /\ InitProcessor /\ InitReply /\ InitBatch /\ InitMain(0) /\ InitUnit
    /\ env_keys = Len(processor.api_keys)
    /\ InitParse({<<>>}) /\ InitScripts({NoTicketData})

NextReply == CallGenerateReply \/ Attempt \/ Backoff

\* generate_reply called again and again by some caller
SpecReply == InitReplySpec /\ [][NextReply]_vars


\* ------------------------------------------------------------ process_tickets_batch, run
\* process_tickets_batch(list) is called
StartBatch(list) ==
    /\ tickets' = list
    /\ batch_out' = <<>>
    /\ batch_pc' = "running"
    /\ batch_exc' = "none"
    /\ store_mark' = Len(store)
    /\ last_result' = NoResult

ProcessTicketWith(run, h) ==
    /\ processor' = run.processor
    /\ last_result' = run.result
    /\ batch_out' = Append(batch_out, h.ticket)
    /\ store' = IF h.save THEN save_single_ticket_to_json(store, h.ticket) ELSE store
    /\ batch_pc' = IF h.raises = "none" THEN "running" ELSE "raised"
    /\ batch_exc' = h.raises

ProcessTicketRun(ticket, run) == ProcessTicketWith(run, BatchHandler(ticket, run.result))

\* one pass of the loop of process_tickets_batch, the provider following one of scripts
ProcessTicket(scripts) ==
    /\ batch_pc = "running"
    /\ Len(batch_out) < Len(tickets)
    /\ \E script \in scripts :
          ProcessTicketRun(tickets[Len(batch_out) + 1], generate_reply(processor, script))
    /\ gen_log' = Append(gen_log, tickets[Len(batch_out) + 1].ticket_id)
    /\ UNCHANGED <<tickets, store_mark>>

\* return processed_tickets
ReturnBatch ==
    /\ batch_pc = "running"
    /\ Len(batch_out) = Len(tickets)
    /\ batch_pc' = "returned"
    /\ UNCHANGED <<processor, tickets, batch_out, batch_exc, store, store_mark, last_result,
                   gen_log>>

\* ------------------------------------------------------------ process_tickets_batch alone
\* the longest list process_tickets_batch is handed
MaxBatchLen == 2

\* a caller hands a new GeminiProcessor's process_tickets_batch a list of scraped tickets
CallBatch ==
    /\ batch_pc = "idle"
    /\ \E n \in 0..MaxBatchLen : StartBatch([k \in 1..n |-> ScrapedTicket(k)])
    /\ \E d \in IdleDelays : processor' = Advance(processor, d)
    /\ UNCHANGED <<store, gen_log>>

NextBatch ==
    \/ CallBatch /\ UNCHANGED <<reply_vars, main_vars, unit_vars, aux_vars>>
    \/ ProcessTicket(Scripts) /\ UNCHANGED <<reply_vars, main_vars, unit_vars, aux_vars>>
    \/ ReturnBatch /\ UNCHANGED <<reply_vars, main_vars, unit_vars, aux_vars>>

\* one call of process_tickets_batch
SpecBatch == InitReplySpec /\ [][NextBatch]_vars

\* ------------------------------------------------------------ main
\* the most ticket ids extract_ticket_ids finds
MaxTickets == 4

\* the provider during a run of main: it answers in the format asked for, or its
\* quota is exhausted on every call, or it answers with the content envelope
MainScripts ==
    {Always(Answers(R_TEMPLATE)), Always(Raises("ResourceExhausted")),
     Always(Answers(R_ENVELOPE))}

\* seconds the scrape of a batch takes
ScrapeDelays == {4, WINDOW}

\* list[-n:]
LastN(list, n) ==
    IF n >= Len(list) THEN list ELSE SubSeq(list, Len(list) - n + 1, Len(list))

\* list[-n:] = new
AssignLastN(list, n, new) ==
    IF n >= Len(list) THEN new ELSE SubSeq(list, 1, Len(list) - n) \o new

\* no GeminiProcessor has been constructed
NoProcessor ==
    [api_keys |-> <<>>, current_key_index |-> 0, key_usage |-> <<>>,
     api_call_count |-> 0, since_reset |-> 0, configured_key |-> "none"]

\* progress_data["processed_tickets"] and progress_data["next_ticket_index"], or the
\* empty list and 0 when there is no progress file
LoadedTickets == IF checkpoint.exists THEN checkpoint.processed_tickets ELSE <<>>
ResumeFrom == IF checkpoint.exists THEN checkpoint.next_ticket_index ELSE 0

\* a main that goes on without a processor
StartAnyway ==
    /\ main_pc' = "loop"
    /\ UNCHANGED processor

\* _load_api_keys raised ValueError: main logs it and returns
StopAtStartup ==
    /\ main_pc' = "stopped"
    /\ UNCHANGED processor

\* GeminiProcessor(env_file=".env") is built, the login and the navigation succeed
\* and extract_ticket_ids returns the ids
StartLoop ==
    /\ processor' = NewProcessor(env_keys)
    /\ main_pc' = "loop"

\* the first lines of main: the progress file is read if there is one, then the
\* processor is constructed
MainStartup ==
    /\ main_pc = "start"
    /\ processed_tickets' = LoadedTickets
    /\ i' = ResumeFrom
    /\ resume' = [resume EXCEPT !.resumed = checkpoint.exists,
                                !.from = ResumeFrom,
                                !.loaded = LoadedTickets,
                                !.store_mark = Len(store)]
    /\ IF env_keys = 0 THEN StopAtStartup ELSE StartLoop
    /\ UNCHANGED <<ticket_ids, batch, tasks, checkpoint, pauses, env_keys>>

\* the process ends or is killed, and main is started again later; the files on
\* disk stay. One such restart is followed.
MainRestart ==
    /\ main_pc \notin {"start", "stopped"}
    /\ ~resume.restarted
    /\ resume' = [resume EXCEPT !.restarted = TRUE, !.store_mark = Len(store)]
    /\ main_pc' = "start"
    /\ processor' = NoProcessor
    /\ processed_tickets' = <<>>
    /\ i' = 0
    /\ batch' = <<>>
    /\ tasks' = {}
    /\ tickets' = <<>>
    /\ batch_pc' = "idle"
    /\ batch_out' = <<>>
    /\ batch_exc' = "none"
    /\ store_mark' = Len(store)
    /\ last_result' = NoResult
    /\ gen_log' = <<>>
    /\ UNCHANGED <<store, ticket_ids, checkpoint, pauses, env_keys>>

\* a slice that takes one id more
BatchEndOneMore(from) == Min(from + MAX_PARALLEL_TABS + 1, Len(ticket_ids))

\* ticket_ids[from : from + MAX_PARALLEL_TABS] ends here
BatchEnd(from) == Min(from + MAX_PARALLEL_TABS, Len(ticket_ids))

\* a main that does not wait for its scrape tasks
GatherNotAwaited == TRUE

\* await asyncio.gather(*tasks) returns when every task of the batch has ended
GatherDone == tasks = {}

\* for i in range(resume_from, len(ticket_ids), MAX_PARALLEL_TABS): the batch is
\* cut and one process_ticket task per id starts
MainStartBatch ==
    /\ main_pc = "loop"
    /\ i < Len(ticket_ids)
    /\ batch' = SubSeq(ticket_ids, i + 1, BatchEnd(i))
    /\ tasks' = {ticket_ids[k] : k \in (i + 1)..BatchEnd(i)}
    /\ main_pc' = "gather"
    /\ UNCHANGED <<processor, ticket_ids, processed_tickets, i, checkpoint, pauses>>

\* process_ticket(context, ticket_id, processed_tickets) ends: it appended the
\* ticket, or navigation, extraction or validation failed and it appended nothing
ScrapeTask ==
    /\ main_pc = "gather"
    /\ \E t \in tasks :
          /\ tasks' = tasks \ {t}
          /\ \/ processed_tickets' = Append(processed_tickets, ScrapedTicket(t))
             \/ processed_tickets' = processed_tickets
    /\ UNCHANGED <<processor, ticket_ids, i, batch, main_pc, checkpoint, pauses>>

\* asyncio.gather returned after one of delays seconds:
\* process_tickets_with_gemini(processed_tickets[-len(batch):])
MainCallGeminiAfter(delays) ==
    /\ main_pc = "gather"
    /\ GatherDone
    /\ StartBatch(LastN(processed_tickets, Len(batch)))
    /\ \E d \in delays : processor' = Advance(processor, d)
    /\ main_pc' = "gemini"
    /\ UNCHANGED <<store, gen_log, ticket_ids, processed_tickets, i, batch, tasks, checkpoint,
                   pauses>>

MainCallGemini == MainCallGeminiAfter(ScrapeDelays)

\* except RateLimitExceededError in process_tickets_with_gemini: sleep and call
\* process_tickets_batch again with the same tickets
PauseAndResubmit ==
    /\ StartBatch(tickets)
    /\ processor' = Advance(processor, BATCH_PAUSE)
    /\ pauses' = pauses + 1
    /\ UNCHANGED <<store, gen_log, ticket_ids, processed_tickets, i, batch, tasks, main_pc,
                   checkpoint>>

\* What process_tickets_with_gemini hands back once process_tickets_batch is over:
\* the list it returned, or on AllAPIKeysExhaustedError the tickets as they are.
\* The batch loop changes the ticket objects in place.
GeminiResult ==
    IF batch_pc = "returned" THEN batch_out
    ELSE batch_out \o SubSeq(tickets, Len(batch_out) + 1, Len(tickets))

\* if (i + len(batch)) % SAVE_INTERVAL == 0: the progress file is written
WriteCheckpoint(list, next) ==
    IF next % SAVE_INTERVAL = 0
    THEN [exists |-> TRUE, processed_tickets |-> list, next_ticket_index |-> next]
    ELSE checkpoint

BatchDone(list) ==
    /\ processed_tickets' = list
    /\ checkpoint' = WriteCheckpoint(list, i + Len(batch))
    /\ i' = i + MAX_PARALLEL_TABS
    /\ main_pc' = "loop"
    /\ batch_pc' = "idle"
    /\ UNCHANGED <<processor, tickets, batch_out, batch_exc, store, store_mark, last_result,
                   gen_log, ticket_ids, batch, tasks, pauses>>

\* process_tickets_with_gemini is over: the slice is assigned back, the progress
\* saved when due, and the loop goes on
MainAfterGemini ==
    /\ main_pc = "gemini"
    /\ batch_pc \in {"returned", "raised"}
    /\ IF batch_pc = "raised" /\ batch_exc = "RateLimitExceededError"
       THEN PauseAndResubmit
       ELSE BatchDone(AssignLastN(processed_tickets, Len(batch), GeminiResult))

\* after the loop: remaining_tickets = len(processed_tickets) % MAX_PARALLEL_TABS
MainAfterLoop ==
    /\ main_pc = "loop"
    /\ i >= Len(ticket_ids)
    /\ IF Len(processed_tickets) % MAX_PARALLEL_TABS > 0
       THEN /\ StartBatch(LastN(processed_tickets, Len(processed_tickets) % MAX_PARALLEL_TABS))
            /\ main_pc' = "remainder"
       ELSE /\ main_pc' = "final"
            /\ UNCHANGED <<tickets, batch_pc, batch_out, batch_exc, store_mark, last_result>>
    /\ UNCHANGED <<processor, store, gen_log, ticket_ids, processed_tickets, i, batch, tasks,
                   checkpoint, pauses>>

RemainderDone(list) ==
    /\ processed_tickets' = list
    /\ main_pc' = "final"
    /\ batch_pc' = "idle"
    /\ UNCHANGED <<processor, tickets, batch_out, batch_exc, store, store_mark, last_result,
                   gen_log, ticket_ids, i, batch, tasks, checkpoint, pauses>>

\* the remaining tickets are back from process_tickets_with_gemini
MainAfterRemainder ==
    /\ main_pc = "remainder"
    /\ batch_pc \in {"returned", "raised"}
    /\ IF batch_pc = "raised" /\ batch_exc = "RateLimitExceededError"
       THEN PauseAndResubmit
       ELSE RemainderDone(AssignLastN(processed_tickets,
                                      Len(processed_tickets) % MAX_PARALLEL_TABS,
                                      GeminiResult))

\* save_to_json(processed_tickets), and main is over
MainFinalSave ==
    /\ main_pc = "final"
    /\ main_pc' = "done"
    /\ UNCHANGED <<processor, batch_vars, ticket_ids, processed_tickets, i, batch, tasks,
                   checkpoint, pauses>>

MainProcessTicket ==
    /\ main_pc \in {"gemini", "remainder"}
    /\ ProcessTicket(MainScripts)
    /\ UNCHANGED <<reply_vars, main_vars, unit_vars, aux_vars>>

MainReturnBatch ==
    /\ main_pc \in {"gemini", "remainder"}
    /\ ReturnBatch
    /\ UNCHANGED <<reply_vars, main_vars, unit_vars, aux_vars>>

\* main has been started; its GeminiProcessor does not exist yet
Init ==
    /\ env_keys \in 0..MaxKeys
    /\ processor = NoProcessor
    /\ InitReply /\ InitBatch /\ InitUnit /\ InitParse({<<>>}) /\ InitScripts({NoTicketData})
    /\ \E n \in 0..MaxTickets : InitMain(n)

Next ==
    \/ MainStartup /\ UNCHANGED <<reply_vars, batch_vars, unit_vars, parse_vars, script_vars>>
    \/ MainStartBatch /\ UNCHANGED <<reply_vars, batch_vars, unit_vars, aux_vars>>
    \/ ScrapeTask /\ UNCHANGED <<reply_vars, batch_vars, unit_vars, aux_vars>>
    \/ MainCallGemini /\ UNCHANGED <<reply_vars, unit_vars, aux_vars>>
    \/ MainProcessTicket
    \/ MainReturnBatch
    \/ MainAfterGemini /\ UNCHANGED <<reply_vars, unit_vars, aux_vars>>
    \/ MainAfterLoop /\ UNCHANGED <<reply_vars, unit_vars, aux_vars>>
    \/ MainAfterRemainder /\ UNCHANGED <<reply_vars, unit_vars, aux_vars>>
    \/ MainFinalSave /\ UNCHANGED <<reply_vars, unit_vars, aux_vars>>

\* one run of main
Spec == Init /\ [][Next]_vars

\* ------------------------------------------------------------ main, started again
\* the provider answers every call in the format asked for, and the scrape of a
\* batch takes a minute
ResumeScripts == {Always(Answers(R_TEMPLATE))}
ResumeDelays == {WINDOW}

ResumeProcessTicket ==
    /\ main_pc \in {"gemini", "remainder"}
    /\ ProcessTicket(ResumeScripts)
    /\ UNCHANGED <<reply_vars, main_vars, unit_vars, aux_vars>>

InitResume ==
    /\ env_keys = 1
    /\ processor = NoProcessor
    /\ InitReply /\ InitBatch /\ InitUnit /\ InitParse({<<>>}) /\ InitScripts({NoTicketData})
    /\ \E n \in 0..MaxTickets : InitMain(n)

NextResume ==
    \/ MainStartup /\ UNCHANGED <<reply_vars, batch_vars, unit_vars, parse_vars, script_vars>>
    \/ MainRestart /\ UNCHANGED <<reply_vars, unit_vars, parse_vars, script_vars>>
    \/ MainStartBatch /\ UNCHANGED <<reply_vars, batch_vars, unit_vars, aux_vars>>
    \/ ScrapeTask /\ UNCHANGED <<reply_vars, batch_vars, unit_vars, aux_vars>>
    \/ MainCallGeminiAfter(ResumeDelays) /\ UNCHANGED <<reply_vars, unit_vars, aux_vars>>
    \/ ResumeProcessTicket
    \/ MainReturnBatch
    \/ MainAfterGemini /\ UNCHANGED <<reply_vars, unit_vars, aux_vars>>
    \/ MainAfterLoop /\ UNCHANGED <<reply_vars, unit_vars, aux_vars>>
    \/ MainAfterRemainder /\ UNCHANGED <<reply_vars, unit_vars, aux_vars>>
    \/ MainFinalSave /\ UNCHANGED <<reply_vars, unit_vars, aux_vars>>

\* a run of main that ends or is killed at some point, and the run that follows it
SpecResume == InitResume /\ [][NextResume]_vars

\* ------------------------------------------------------------ pipeline: claims
\* the tickets save_single_ticket_to_json was called for since the batch was called
SavedByBatch == SubSeq(store, store_mark + 1, Len(store))

\* the reply the loop gave the ticket it handled last
LastContent == batch_out[Len(batch_out)].next_reply[1].content

\* generate_reply gave up on rate limiting for the ticket the loop handled last:
\* its last attempt raised RateLimitExceededError
RateLimited ==
    /\ batch_out # <<>>
    /\ last_result.kind = "raise"
    /\ last_result.cause = "RateLimitExceededError"

\* C1: every ticket handed to process_tickets_batch is persisted by the time the
\* batch returns, whatever generate_reply did for it: the tickets saved during the
\* call are exactly the tickets handed in, in order, each with one reply, which is
\* what generate_reply returned or a labelled placeholder.
C1_BatchPersistsEveryTicket ==
    /\ batch_pc \in {"running", "returned"} =>
          /\ SavedByBatch = batch_out
          /\ \A k \in 1..Len(batch_out) :
                /\ batch_out[k].ticket_id = tickets[k].ticket_id
                /\ Len(batch_out[k].next_reply) = 1
          /\ batch_out # <<>> =>
                LastContent = IF last_result.kind = "return" THEN last_result.value
                              ELSE ErrorPlaceholder(last_result.exc)
    /\ batch_pc = "returned" => Len(batch_out) = Len(tickets)

\* C1 witness: a batch of two returned, and generate_reply had given up on rate
\* limiting for its last ticket
C1_Witness ==
    /\ batch_pc = "returned"
    /\ Len(tickets) = 2
    /\ RateLimited
    /\ batch_out[1].next_reply[1].content = <<"Hello", "[", "name", "]", "JAMB Support">>

\* how often generate_reply was called for ticket id
Generated(id) == Cardinality({k \in 1..Len(gen_log) : gen_log[k] = id})

\* how often ticket id was appended to the durable store
Stored(id) == Cardinality({k \in 1..Len(store) : store[k].ticket_id = id})

\* C2: within one run of main every scraped ticket goes through reply generation
\* exactly once and is appended to the durable store exactly once.
C2_EachTicketProcessedOnce ==
    /\ \A id \in 1..Len(ticket_ids) : Generated(id) <= 1 /\ Stored(id) <= 1
    /\ main_pc = "done" =>
          \A k \in 1..Len(processed_tickets) :
             /\ Generated(processed_tickets[k].ticket_id) = 1
             /\ Stored(processed_tickets[k].ticket_id) = 1

\* C3: when reply generation for a ticket fails on rate limiting, the error reaches
\* process_tickets_with_gemini, the ticket gets no placeholder and is not saved,
\* and the batch is submitted again after the pause.
C3_RateLimitPausesBatch ==
    RateLimited =>
        /\ batch_exc = "RateLimitExceededError"
        /\ batch_out[Len(batch_out)].next_reply = <<>>
        /\ SavedByBatch = SubSeq(batch_out, 1, Len(batch_out) - 1)

\* ------------------------------------------------------------ generate_reply: claims
\* this generate_reply ended because the wrapper stopped after a retryable failure
Exhausted == reply_pc = "done" /\ RetryIf(last_attempt.exc)

NumKeys == Len(processor.api_keys)

\* the credentials from index from on, in rotation order, n of them
RotationFrom(from, n) == [k \in 1..n |-> processor.api_keys[((from + k - 1) % NumKeys) + 1]]

\* C4: when every attempt of generate_reply ends in a retryable failure and the
\* attempts are used up, generate_reply raises AllAPIKeysExhaustedError and no
\* other error type.
C4_ExhaustionRaisesAllKeysExhausted ==
    Exhausted => result.kind = "raise" /\ result.exc = "AllAPIKeysExhaustedError"

\* C5: with N credentials that the provider all rejects as invalid, one
\* generate_reply issues exactly N provider calls, one per credential in rotation
\* order, and then raises AllAPIKeysExhaustedError.
C5_AllInvalidCyclesOnce ==
    (reply_pc = "done" /\ only_invalid) =>
        /\ calls = NumKeys
        /\ used = RotationFrom(start_index, NumKeys)
        /\ result.kind = "raise" /\ result.exc = "AllAPIKeysExhaustedError"

C7_ExhaustionMakesMaxRetriesCalls == Exhausted => calls = MAX_RETRIES

\* C7 (amended): generate_reply ends after at most MAX_RETRIES attempts; when the
\* provider fails every call with a retryable error, each of the MAX_RETRIES
\* attempts either makes one provider call or is rejected by check_rate_limit, so
\* the calls number MAX_RETRIES less the rejected attempts.
C7_AttemptsBounded ==
    /\ attempt <= MAX_RETRIES
    /\ reply_pc \in {"attempt", "wait", "done"} => attempt >= 1
    /\ reply_pc = "wait" => attempt < MAX_RETRIES
    /\ calls = Len(used)
    /\ Exhausted => attempt = MAX_RETRIES /\ calls = MAX_RETRIES - rejected

\* C7 witness: the wrapper stopped, some attempts called the provider and some were
\* rejected by check_rate_limit
C7_Witness == Exhausted /\ rejected > 0 /\ calls > 0

\* C8: a provider failure that is neither quota exhaustion nor an invalid
\* credential ends generate_reply at once with that error: no further provider
\* call, no rotation of the credential cursor.
C8_FatalFailurePropagates ==
    (last_attempt.called /\ last_attempt.err \in {"InvalidArgument", "ServiceUnavailable"}) =>
        /\ reply_pc = "done"
        /\ result = Raised(last_attempt.err, last_attempt.err)
        /\ processor.current_key_index = last_attempt.index_before
        /\ processor.configured_key = used[Len(used)]

\* C8 witness: the third attempt met an InvalidArgument that names no invalid key
C8_Witness ==
    /\ reply_pc = "done"
    /\ last_attempt.err = "InvalidArgument"
    /\ attempt = 3
    /\ calls = 3

\* the sleeps of wait_exponential(multiplier=1, min=4, max=120) after attempts 1..9
BackoffSeconds == <<4, 4, 4, 8, 16, 32, 64, 120, 120>>

\* the next attempt after an invalid-credential failure is about to start
RetryAfterInvalidKey == reply_pc = "attempt" /\ last_attempt.exc = "APIKeyInvalidError"

\* C9 as claimed: after an invalid-credential failure the pool is rotated, the
\* client reinitialised and the next attempt issued with no wait in between.
C9_NoWaitAfterInvalidKey ==
    RetryAfterInvalidKey =>
        /\ processor.current_key_index = (last_attempt.index_before + 1) % NumKeys
        /\ processor.configured_key = get_current_key(processor)
        /\ last_wait = 0

\* C9 (amended): after an invalid-credential failure the pool is rotated and the
\* client reinitialised, and the next attempt starts after the retry wrapper's
\* exponential backoff (4 s at least, 120 s at most); no fixed cooldown is added.
C9_BackoffAfterInvalidKey ==
    RetryAfterInvalidKey =>
        /\ processor.current_key_index = (last_attempt.index_before + 1) % NumKeys
        /\ processor.configured_key = get_current_key(processor)
        /\ last_wait = BackoffSeconds[attempt - 1]

\* C9 witness: the fifth attempt is about to start after an invalid-credential failure
C9_Witness == RetryAfterInvalidKey /\ attempt = 5 /\ NumKeys = 2

\* C10: an attempt that check_rate_limit rejects issues no provider call, and
\* generate_reply goes on to the next attempt unless that was the last one: it
\* does not fail at once with the rate-limit error.
C10_RateLimitRejectionRetried ==
    last_attempt.limited =>
        /\ ~last_attempt.called
        /\ last_attempt.exc = "RateLimitExceededError"
        /\ processor.current_key_index = last_attempt.index_before
        /\ reply_pc = "done" => attempt = MAX_RETRIES
        /\ result.exc # "RateLimitExceededError"

\* C10 witness: the second attempt was rejected by check_rate_limit, the third is next
C10_Witness == last_attempt.limited /\ reply_pc = "attempt" /\ attempt = 3 /\ calls = 1

\* ------------------------------------------------------------ usage counters: claims
RECURSIVE UsageSumTo(_, _)

UsageSumTo(key_usage, n) ==
    IF n < 0 THEN 0 ELSE key_usage[n] + UsageSumTo(key_usage, n - 1)

\* the sum of the usage counters of all credentials
UsageSum(key_usage) == UsageSumTo(key_usage, Cardinality(DOMAIN key_usage) - 1)

\* C11: every provider call generate_reply issues raises the usage counter of the
\* credential that was active for the call, so the counter of the credential of
\* the last call is at least 1 and the counters do not sum to 0 once a call was made.
C11_CallsRaiseUsage ==
    last_attempt.called =>
        /\ processor.key_usage[last_attempt.index_before] >= 1
        /\ UsageSum(processor.key_usage) >= 1

\* ------------------------------------------------------------ the rate limiter alone
\* seconds that pass between two calls on the processor
LimiterDelays == {4, WINDOW}

\* check_rate_limit set last_reset_time to the current time
WindowRestarted(p) == p.since_reset >= WINDOW

\* the successful calls since last_reset_time, after check_rate_limit(p) with result r
CountWindowCall(p, r) ==
    (IF WindowRestarted(p) THEN 0 ELSE window_calls) + (IF r.raised THEN 0 ELSE 1)

LimiterCheckWith(r) ==
    /\ processor' = r.processor
    /\ window_calls' = CountWindowCall(processor, r)
    /\ last_op' = [op |-> "check_rate_limit", raised |-> r.raised, before |-> processor]
    /\ UNCHANGED <<manager, rotation>>

\* self.check_rate_limit()
LimiterCheck == LimiterCheckWith(check_rate_limit(processor))

\* time passes
LimiterTick ==
    /\ \E d \in LimiterDelays : processor' = Advance(processor, d)
    /\ last_op' = [op |-> "tick", raised |-> FALSE, before |-> processor]
    /\ UNCHANGED <<manager, rotation, window_calls>>

\* self.api_key_manager.rotate_key(); self.initialize_gemini()
LimiterRotate ==
    /\ processor' = initialize_gemini(rotate_key(processor))
    /\ last_op' = [op |-> "rotate_key", raised |-> FALSE, before |-> processor]
    /\ UNCHANGED <<manager, rotation, window_calls>>

\* self.api_key_manager.get_least_used_key()
LimiterLeastUsed ==
    /\ processor' = get_least_used_key(processor)
    /\ last_op' = [op |-> "get_least_used_key", raised |-> FALSE, before |-> processor]
    /\ UNCHANGED <<manager, rotation, window_calls>>

NextLimiter ==
    \/ LimiterCheck /\ UNCHANGED <<reply_vars, batch_vars, main_vars, aux_vars>>
    \/ LimiterTick /\ UNCHANGED <<reply_vars, batch_vars, main_vars, aux_vars>>
    \/ LimiterRotate /\ UNCHANGED <<reply_vars, batch_vars, main_vars, aux_vars>>
    \/ LimiterLeastUsed /\ UNCHANGED <<reply_vars, batch_vars, main_vars, aux_vars>>

\* a GeminiProcessor whose rate limiter and credential cursor are used in any order
SpecLimiter == InitReplySpec /\ [][NextLimiter]_vars

\* ------------------------------------------------------------ rate limiter: claims
CheckedRateLimit == last_op.op = "check_rate_limit"

\* C12: in every reachable state of the rate limiter api_call_count is between 0
\* and API_CALL_LIMIT, and it is the number of calls that succeeded since
\* last_reset_time.
C12_CountWithinLimit ==
    /\ processor.api_call_count \in 0..API_CALL_LIMIT
    /\ processor.api_call_count = window_calls

\* C12 witness: the limiter is full and has just rejected a call
C12_Witness ==
    /\ CheckedRateLimit /\ last_op.raised
    /\ processor.api_call_count = API_CALL_LIMIT
    /\ processor.since_reset > 0

\* C13: inside a window check_rate_limit succeeds while fewer than API_CALL_LIMIT
\* calls were counted, so the first API_CALL_LIMIT calls of a fresh window
\* succeed, and it raises RateLimitExceededError on the next; a call that raises
\* leaves the counter and last_reset_time as they were.
C13_LimitThenReject ==
    (CheckedRateLimit /\ ~WindowRestarted(last_op.before)) =>
        /\ last_op.raised <=> last_op.before.api_call_count >= API_CALL_LIMIT
        /\ last_op.raised => processor = last_op.before
        /\ ~last_op.raised =>
              processor.api_call_count = last_op.before.api_call_count + 1

\* C13 witness: API_CALL_LIMIT calls succeeded at the start of the first window
\* and the call after them was rejected
C13_Witness ==
    /\ CheckedRateLimit /\ last_op.raised
    /\ last_op.before.since_reset = 0
    /\ window_calls = API_CALL_LIMIT

\* C14: when api_call_count = API_CALL_LIMIT and the clock is 60 seconds or more
\* past last_reset_time, check_rate_limit succeeds and leaves api_call_count = 1
\* and last_reset_time at the current time.
C14_ResetAfterWindow ==
    (/\ CheckedRateLimit
     /\ last_op.before.api_call_count = API_CALL_LIMIT
     /\ last_op.before.since_reset >= WINDOW) =>
        /\ ~last_op.raised
        /\ processor.api_call_count = 1
        /\ processor.since_reset = 0

\* C14 witness: the exhausted limiter was called exactly 60 seconds after its reset
C14_Witness ==
    /\ CheckedRateLimit
    /\ last_op.before.api_call_count = API_CALL_LIMIT
    /\ last_op.before.since_reset = WINDOW

\* C15: rotating the credential and reinitialising the client, and choosing the
\* least used credential, leave api_call_count and last_reset_time unchanged.
C15_RotationKeepsLimiter ==
    last_op.op \in {"rotate_key", "get_least_used_key"} =>
        /\ processor.api_call_count = last_op.before.api_call_count
        /\ processor.since_reset = last_op.before.since_reset

\* C15 witness: the limiter was full when the cursor moved to another credential
C15_Witness ==
    /\ last_op.op = "rotate_key"
    /\ last_op.before.api_call_count = API_CALL_LIMIT
    /\ last_op.before.since_reset < WINDOW
    /\ processor.current_key_index # last_op.before.current_key_index
    /\ processor.configured_key # last_op.before.configured_key

\* ------------------------------------------------------------ APIKeyManager alone
\* the longest key list of an APIKeyManager used on its own
MaxPool == 3

\* the most uses counted for one credential
MaxUsage == 2

\* seconds that pass between two calls on the manager
UsageDelays == {20, WINDOW}

InitManager ==
    /\ \E n \in 1..MaxPool : manager = NewManager(n)
    /\ rotation = [from |-> 0, count |-> 0]
    /\ window_calls = 0
    /\ last_op = NoOp(manager)

CalledOnManager(name) == [op |-> name, raised |-> FALSE, before |-> manager]

\* the rotate_key calls in a row, counted up to one full turn
CountRotation ==
    IF rotation.count = Len(manager.api_keys)
    THEN [from |-> manager.current_key_index, count |-> 1]
    ELSE [rotation EXCEPT !.count = rotation.count + 1]

\* manager.rotate_key()
ManagerRotate ==
    /\ manager' = rotate_key(manager)
    /\ rotation' = CountRotation
    /\ last_op' = CalledOnManager("rotate_key")
    /\ UNCHANGED window_calls

\* manager.increment_usage()
ManagerIncrement ==
    /\ manager.key_usage[manager.current_key_index] < MaxUsage
    /\ manager' = increment_usage(manager)
    /\ last_op' = CalledOnManager("increment_usage")
    /\ UNCHANGED <<rotation, window_calls>>

\* manager.get_least_used_key()
ManagerLeastUsed ==
    /\ manager' = get_least_used_key(manager)
    /\ rotation' = [from |-> manager'.current_key_index, count |-> 0]
    /\ last_op' = CalledOnManager("get_least_used_key")
    /\ UNCHANGED window_calls

\* time passes
ManagerTick ==
    /\ \E d \in UsageDelays :
          manager' = [manager EXCEPT
                        !.usage_since_reset = Min(manager.usage_since_reset + d, ClockCap)]
    /\ last_op' = CalledOnManager("tick")
    /\ UNCHANGED <<rotation, window_calls>>

NextManager ==
    \/ ManagerRotate /\ UNCHANGED <<processor, reply_vars, batch_vars, main_vars, aux_vars>>
    \/ ManagerIncrement /\ UNCHANGED <<processor, reply_vars, batch_vars, main_vars, aux_vars>>
    \/ ManagerLeastUsed /\ UNCHANGED <<processor, reply_vars, batch_vars, main_vars, aux_vars>>
    \/ ManagerTick /\ UNCHANGED <<processor, reply_vars, batch_vars, main_vars, aux_vars>>

InitManagerSpec ==
    /\ processor = NewProcessor(1) /\ InitReply /\ InitBatch /\ InitMain(0) /\ InitManager
    /\ env_keys = 1
    /\ InitParse({<<>>}) /\ InitScripts({NoTicketData})

\* an APIKeyManager whose methods are called in any order
SpecManager == InitManagerSpec /\ [][NextManager]_vars

\* ------------------------------------------------------------ APIKeyManager: claims
PoolSize == Len(manager.api_keys)

\* the last call on the manager was name
Called(name) == last_op.op = name

\* the counters were cleared by the last call
CountersCleared == last_op.before.usage_since_reset >= WINDOW

\* C16: for an APIKeyManager built from N >= 1 keys, after any sequence of
\* rotate_key, get_least_used_key and increment_usage calls current_key_index is
\* in 0..N-1 and key_usage has exactly the keys 0..N-1, so get_current_key
\* returns one of the keys.
C16_CursorValid ==
    /\ manager.current_key_index \in 0..(PoolSize - 1)
    /\ DOMAIN manager.key_usage = 0..(PoolSize - 1)
    /\ \E k \in 1..PoolSize : get_current_key(manager) = manager.api_keys[k]

\* C16 witness: with three keys the cursor is on the last one after increment_usage
\* has rebuilt key_usage
C16_Witness ==
    /\ PoolSize = 3
    /\ Called("increment_usage") /\ CountersCleared
    /\ manager.current_key_index = 2

\* C17: every rotate_key moves current_key_index to (index + 1) mod N and changes
\* no usage counter, and N calls in a row bring it back to the index they
\* started from, whatever that index was.
C17_RotationCycles ==
    /\ manager.current_key_index = (rotation.from + rotation.count) % PoolSize
    /\ rotation.count = PoolSize => manager.current_key_index = rotation.from
    /\ Called("rotate_key") =>
          /\ manager.current_key_index = (last_op.before.current_key_index + 1) % PoolSize
          /\ manager.key_usage = last_op.before.key_usage
          /\ manager.usage_since_reset = last_op.before.usage_since_reset

\* C17 witness: three rotations in a row that started from index 1 of three keys
C17_Witness ==
    /\ PoolSize = 3
    /\ Called("rotate_key")
    /\ rotation = [from |-> 1, count |-> 3]

\* C18: get_least_used_key sets current_key_index to an index whose usage counter
\* is minimal over all credentials, the lowest such index, and changes no counter.
C18_LeastUsedLowestIndex ==
    Called("get_least_used_key") =>
        /\ \A b \in 0..(PoolSize - 1) :
              manager.key_usage[manager.current_key_index] <= manager.key_usage[b]
        /\ \A b \in 0..(manager.current_key_index - 1) :
              manager.key_usage[b] > manager.key_usage[manager.current_key_index]
        /\ manager.key_usage = last_op.before.key_usage

\* C18 witness: of three credentials the first is used most and the other two
\* equally, and the cursor came from the third to the second
C18_Witness ==
    /\ PoolSize = 3
    /\ Called("get_least_used_key")
    /\ manager.key_usage[0] > manager.key_usage[1]
    /\ manager.key_usage[1] = manager.key_usage[2]
    /\ manager.key_usage[1] > 0
    /\ last_op.before.current_key_index = 2
    /\ manager.current_key_index = 1

\* C19: increment_usage called 60 seconds or more after last_reset_time leaves the
\* active credential's counter at 1 and every other counter at 0; called inside
\* the window it raises only the active credential's counter, by exactly 1.
C19_IncrementCountsAfterReset ==
    Called("increment_usage") =>
        \A k \in 0..(PoolSize - 1) :
            manager.key_usage[k] =
                (IF CountersCleared THEN 0 ELSE last_op.before.key_usage[k])
                + (IF k = manager.current_key_index THEN 1 ELSE 0)

\* ------------------------------------------------------------ process_tickets_batch: claims
\* generate_reply failed for the ticket the loop handled last
ReplyFailed == batch_out # <<>> /\ last_result.kind = "raise"

\* C20: a failure of reply generation for one ticket never aborts
\* process_tickets_batch: the ticket gets the placeholder that asks for manual
\* review and is saved, and the loop goes on to the later tickets, so the batch
\* returns all of them.
C20_FailureDoesNotAbortBatch ==
    /\ batch_pc # "raised" /\ batch_exc = "none"
    /\ ReplyFailed =>
          /\ LastContent = ErrorPlaceholder(last_result.exc)
          /\ store # <<>> /\ store[Len(store)] = batch_out[Len(batch_out)]
          /\ batch_pc \in {"running", "returned"}
    /\ batch_pc = "returned" => Len(batch_out) = Len(tickets)

\* C20 witness: the reply of the first ticket failed validation, the second ticket
\* was processed after it and got its reply, and the batch returned both
C20_Witness ==
    /\ batch_pc = "returned"
    /\ Len(batch_out) = 2
    /\ batch_out[1].next_reply[1].content = ErrorPlaceholder("APIResponseValidationError")
    /\ last_result.kind = "return"
    /\ batch_out[2].next_reply[1].content = last_result.value
    /\ store = batch_out

\* generate_reply returned for the ticket the loop handled last
ReplySucceeded == batch_out # <<>> /\ last_result.kind = "return"

\* C21: when generate_reply succeeds for a ticket, process_tickets_batch sets the
\* ticket's next_reply to a list of exactly one object whose content is the
\* returned reply, and the ticket is saved before generate_reply is called for
\* the next ticket: between two passes of the loop as many tickets are saved as
\* replies were asked for.
C21_ReplyAttachedAndSaved ==
    /\ Len(SavedByBatch) = Len(batch_out)
    /\ Len(store) = Len(gen_log)
    /\ ReplySucceeded =>
          /\ batch_out[Len(batch_out)].next_reply = <<[content |-> last_result.value]>>
          /\ store[Len(store)] = batch_out[Len(batch_out)]
          /\ store[Len(store)].ticket_id = gen_log[Len(gen_log)]

\* C21 witness: the first of two tickets has its reply and is saved, and
\* generate_reply has not been called for the second yet
C21_Witness ==
    /\ batch_pc = "running"
    /\ Len(tickets) = 2
    /\ Len(batch_out) = 1
    /\ ReplySucceeded
    /\ gen_log = <<1>>
    /\ store = batch_out

\* ------------------------------------------------------------ checkpoint: claims
\* main is between two batches, or past the last one, and has completed a batch
BatchCompleted == main_pc = "loop" /\ batch # <<>>

\* C22: after every completed batch of main, a final batch shorter than
\* MAX_PARALLEL_TABS included, the checkpoint is written with next_ticket_index
\* equal to the index just past that batch.
C22_CheckpointAfterEveryBatch ==
    BatchCompleted =>
        /\ checkpoint.exists
        /\ checkpoint.next_ticket_index = Min(i, Len(ticket_ids))

\* C23: when a checkpoint with next_ticket_index = k has been written, every ticket
\* id at an index below k has been appended to the durable store, and k is
\* batch-aligned and not greater than the number of ticket ids; this holds also
\* when the scrape of a ticket fails.
C23_CheckpointBehindStore ==
    checkpoint.exists =>
        /\ \A k \in 1..checkpoint.next_ticket_index : Stored(ticket_ids[k]) >= 1
        /\ checkpoint.next_ticket_index <= Len(ticket_ids)
        /\ checkpoint.next_ticket_index % MAX_PARALLEL_TABS = 0

\* ------------------------------------------------------------ resume: claims
\* main was started again and found a checkpoint
Resumed == resume.restarted /\ resume.resumed /\ main_pc # "start"

\* C24: started with a checkpoint whose next_ticket_index is r, main generates
\* replies only for ticket ids at index r and above, saves only those, and leaves
\* the tickets loaded from the checkpoint as they were.
C24_ResumeLeavesLoadedTickets ==
    Resumed =>
        /\ \A k \in 1..Len(gen_log) : gen_log[k] > resume.from
        /\ \A k \in (resume.store_mark + 1)..Len(store) : store[k].ticket_id > resume.from
        /\ Len(processed_tickets) >= Len(resume.loaded)
        /\ SubSeq(processed_tickets, 1, Len(resume.loaded)) = resume.loaded

\* ------------------------------------------------------------ ordering and concurrency: claims
\* C25: tickets are submitted to reply generation and persisted in the order of the
\* scraped ticket-id list, whatever the order in which the scrape tasks of a
\* batch complete.
C25_ProcessedInIdOrder ==
    /\ \A j, k \in 1..Len(gen_log) : j < k => gen_log[j] <= gen_log[k]
    /\ \A j, k \in 1..Len(store) : j < k => store[j].ticket_id <= store[k].ticket_id

\* process_tickets_batch is running: a call of generate_reply is in flight or about to be
GeneratingReplies == batch_pc = "running"

\* C26: at most one call of generate_reply is in flight at any instant. The loop of
\* process_tickets_batch is synchronous, so each pass runs to its end before
\* anything else runs; the batch is called from one place at a time, when no
\* scrape task exists that could run beside it, and every reply asked for has
\* been dealt with and saved before the next is asked for.
C26_OneReplyInFlight ==
    /\ GeneratingReplies => tasks = {} /\ main_pc \in {"gemini", "remainder"}
    /\ main_pc \in {"start", "stopped", "loop", "gather", "final", "done"} =>
          batch_pc \in {"idle", "returned"}
    /\ Len(gen_log) = Len(store) - resume.store_mark

\* C26 witness: in a batch of three the first reply is done and the second not yet asked for
C26_Witness ==
    /\ GeneratingReplies
    /\ main_pc = "gemini"
    /\ Len(tickets) = 3
    /\ Len(batch_out) = 1
    /\ gen_log = <<tickets[1].ticket_id>>

\* C27: for each batch at most MAX_PARALLEL_TABS scrape tasks run at a time, all
\* for ids of that batch; reply generation starts only when every scrape task of
\* the batch has ended, and no scrape task of a later batch exists before the
\* reply generation of the current batch has ended.
C27_ScrapeBarrier ==
    /\ Cardinality(tasks) <= MAX_PARALLEL_TABS
    /\ Len(batch) <= MAX_PARALLEL_TABS
    /\ \A t \in tasks : \E k \in 1..Len(batch) : batch[k] = t
    /\ tasks # {} => main_pc = "gather" /\ batch_pc = "idle"
    /\ main_pc \in {"gemini", "remainder"} => tasks = {}

\* C27 witness: a scrape task of the second batch is running, after the three
\* tickets of the first batch were scraped and their replies generated
C27_Witness ==
    /\ tasks # {}
    /\ i = MAX_PARALLEL_TABS
    /\ Len(gen_log) = MAX_PARALLEL_TABS
    /\ main_pc = "gather"

\* ------------------------------------------------------------ startup: claims
\* C28: when no credential is configured, constructing GeminiProcessor fails and
\* main stops at startup: no ticket is scraped, no reply is generated, nothing is
\* persisted and no checkpoint is written.
C28_NoCredentialStopsMain ==
    env_keys = 0 =>
        /\ main_pc \in {"start", "stopped"}
        /\ processor = NoProcessor
        /\ tasks = {} /\ batch = <<>> /\ processed_tickets = <<>>
        /\ gen_log = <<>>
        /\ store = <<>>
        /\ ~checkpoint.exists

\* C28 witness: main has returned at startup although there were tickets to process
C28_Witness ==
    /\ env_keys = 0
    /\ main_pc = "stopped"
    /\ Len(ticket_ids) = MAX_PARALLEL_TABS

\* ------------------------------------------------------------ parse_and_validate_reply on its own
\* the longest content of a raw reply, in tokens
MaxContentLen == 3

ContentTokens == {"Hello", "text", "JAMB Support"}

\* the texts a reply can carry: every sequence of the tokens up to the bound
Contents == UNION {[1..n -> ContentTokens] : n \in 0..MaxContentLen}

\* the field names of a JSON reply
FieldNames == {<<"content">>, <<"Hello">>, <<"Hello", "text">>}

\* {"<name>": "<content>"}
Envelope(name, content) ==
    <<"{", QUOTE>> \o name \o <<QUOTE, ":", QUOTE>> \o content \o <<QUOTE, "}">>

\* {"<content>"}, the format the prompt asks for
Template(content) == <<"{", QUOTE>> \o content \o <<QUOTE, "}">>

\* "<content>", a JSON string
Quoted(content) == <<QUOTE>> \o content \o <<QUOTE>>

ReplyBodies ==
    {Envelope(name, content) : name \in FieldNames, content \in Contents}
        \cup {Template(content) : content \in Contents}
        \cup {Quoted(content) : content \in Contents}
        \cup Contents

\* the body inside a fenced json block
Fenced(body) == <<FENCE_JSON>> \o body \o <<FENCE>>

\* the body between blanks
Padded(body) == <<WS>> \o body \o <<WS>>

\* the body on its own line inside a fenced json block
FencedLines(body) == <<FENCE_JSON, WS>> \o body \o <<WS, FENCE>>

\* the body inside a fenced block without a language tag
FencedBare(body) == <<FENCE>> \o body \o <<FENCE>>

RawReplies ==
    ReplyBodies \cup {Fenced(body) : body \in ReplyBodies}
        \cup {FencedLines(body) : body \in ReplyBodies}
        \cup {FencedBare(body) : body \in ReplyBodies}
        \cup {Padded(body) : body \in ReplyBodies}

\* parse_and_validate_reply(reply_text) returns or raises
ParseReply ==
    /\ parse_pc = "idle"
    /\ parse_pc' = "done"
    /\ parse_result' = parse_and_validate_reply(reply_text)
    /\ UNCHANGED reply_text

InitParseSpec ==
    /\ processor = NewProcessor(1) /\ InitReply /\ InitBatch /\ InitMain(0) /\ InitUnit
    /\ env_keys = 1
    /\ InitParse(RawReplies) /\ InitScripts({NoTicketData})

NextParse ==
    ParseReply /\ UNCHANGED <<processor, reply_vars, batch_vars, main_vars, unit_vars, run_vars,
                             script_vars>>

\* parse_and_validate_reply called once on any raw reply
SpecParse == InitParseSpec /\ [][NextParse]_vars

\* ------------------------------------------------------------ parse_and_validate_reply: claims
Parsed == parse_pc = "done"

\* C29 (as the specification states it): every content parse_and_validate_reply
\* returns starts with Hello and contains JAMB Support.
C29_ReturnedIsGreetedAndSigned ==
    Parsed /\ parse_result.ok =>
        /\ StartsWith(parse_result.content, "Hello")
        /\ Contains(parse_result.content, "JAMB Support")

\* C30 (as the specification states it): a JSON object with a content field
\* whose value starts with Hello and contains JAMB Support is accepted, and the
\* value of the field is what is returned.
C30_ContentFieldReturned ==
    \A content \in Contents :
        /\ Parsed
        /\ reply_text = Envelope(<<"content">>, content)
        /\ StartsWith(content, "Hello")
        /\ Contains(content, "JAMB Support")
        => parse_result = Accepted(content)

\* C31 (as the specification states it): a plain-text reply that starts with
\* Hello and contains JAMB Support is returned unchanged, so that parsing the
\* returned text again returns it again.
C31_PlainReplyReturnedUnchanged ==
    /\ Parsed
    /\ reply_text \in Contents
    /\ StartsWith(reply_text, "Hello")
    /\ Contains(reply_text, "JAMB Support")
    => /\ parse_result = Accepted(reply_text)
       /\ parse_and_validate_reply(parse_result.content) = parse_result

\* the bodies json.loads accepts
JsonPayloads == {body \in ReplyBodies : JsonLoads(body).ok}

\* C32 (as the specification states it): a JSON payload inside a fenced code
\* block has the outcome of the payload alone.
C32_FencedPayloadSameOutcome ==
    \A body \in JsonPayloads :
        Parsed /\ reply_text \in {Fenced(body), FencedLines(body), FencedBare(body)}
            => parse_result = parse_and_validate_reply(body)

\* ------------------------------------------------------------ generate_reply: post-formatting
HasBracket(content) == Contains(content, "[") \/ Contains(content, "]")

\* C33 (as the specification states it): a reply generate_reply returns holds no
\* bracketed placeholder.
C33_ReturnedReplyHasNoBracket ==
    reply_pc = "done" /\ result.kind = "return" => ~HasBracket(result.value)

\* ------------------------------------------------------------ the two agent-last scripts
\* the most messages of a ticket
MaxMessages == 3

\* A message as extract_messages builds it: the sender under the key
\* sender_name or agent_name, a timestamp and a content.
Message(sender_type, sender, timestamp, content) ==
    [sender_type |-> sender_type, sender |-> sender, timestamp |-> timestamp,
     content |-> content]

Messages ==
    {Message(sender_type, sender, timestamp, content) :
        sender_type \in {"agent_name"}, sender \in {"Agent", "Unknown Sender"},
        timestamp \in {"10:00", "Unknown Time"}, content \in {<<"text">>, <<WS>>}}
    \cup
    {Message(sender_type, sender, timestamp, content) :
        sender_type \in {"sender_name"}, sender \in {"Candidate"},
        timestamp \in {"10:00"}, content \in {<<"text">>, <<>>}}

\* message.get("agent_name")
GetAgentName(message) ==
    IF message.sender_type = "agent_name" THEN message.sender ELSE None

\* validate_message(message) for a message of a ticket
ValidMessage(message) ==
    validate_message([agent_name |-> GetAgentName(message),
                      timestamp |-> message.timestamp,
                      content |-> message.content])

TicketIdsOfScripts == {"T1", "T2"}

TicketData(ticket_id, messages) ==
    [found |-> TRUE, ticket_id |-> ticket_id, messages |-> messages]

\* what extract_ticket_data returns: None, or the ticket with its messages
TicketDatas ==
    {NoTicketData} \cup
    {TicketData(ticket_id, messages) :
        ticket_id \in TicketIdsOfScripts,
        messages \in UNION {[1..n -> Messages] : n \in 0..MaxMessages}}

\* for message in reversed(messages): the classification at the first valid one
CheckLastReplyFirstMessage(messages, k) ==
    LET hits == {j \in 1..k : ValidMessage(messages[j])}
    IN  IF hits = {} THEN "none"
        ELSE IF messages[CHOOSE j \in hits : \A h \in hits : j <= h].sender_type = "agent_name"
        THEN "agent" ELSE "sender"

RECURSIVE ScanReversed(_, _)
ScanReversed(messages, k) ==
    IF k = 0 THEN "none"
    ELSE IF ValidMessage(messages[k])
    THEN IF messages[k].sender_type = "agent_name" THEN "agent" ELSE "sender"
    ELSE ScanReversed(messages, k - 1)

\* check_agent_last_reply.py: the ticket id, or None
check_last_reply(data) ==
    IF ScanReversed(data.messages, Len(data.messages)) = "agent" THEN data.ticket_id ELSE None

\* close_ticket_agent_reply_last.py: True or False
check_last_reply_closing(data) ==
    ScanReversed(data.messages, Len(data.messages)) = "agent"

\* if value: for None and for a string
Truthy(value) == value # None /\ value # ""

\* check_agent_last_reply.py, main: the body of the loop for the ticket
CheckScriptTicket ==
    /\ check_pc = "loop"
    /\ check_pc' = "done"
    /\ agent_last' =
          IF ticket_data.found /\ Truthy(check_last_reply(ticket_data))
          THEN Append(agent_last, check_last_reply(ticket_data))
          ELSE agent_last
    /\ UNCHANGED <<ticket_data, close_pc, closed_last, close_calls>>

\* close_ticket_agent_reply_last.py, main: if check_last_reply(ticket_data)
CloseAgentLast(data) ==
    /\ closed_last' = Append(closed_last, data.ticket_id)
    /\ close_calls' = Append(close_calls, data.ticket_id)

CloseNothing == UNCHANGED <<closed_last, close_calls>>

\* close_ticket_agent_reply_last.py, main: the body of the loop for the ticket
CloseScriptTicket ==
    /\ close_pc = "loop"
    /\ close_pc' = "done"
    /\ IF ticket_data.found /\ check_last_reply_closing(ticket_data)
       THEN CloseAgentLast(ticket_data)
       ELSE CloseNothing
    /\ UNCHANGED <<ticket_data, check_pc, agent_last>>

InitScriptsSpec ==
    /\ processor = NewProcessor(1) /\ InitReply /\ InitBatch /\ InitMain(0) /\ InitUnit
    /\ env_keys = 1
    /\ InitParse({<<>>}) /\ InitScripts(TicketDatas)

NextScripts ==
    \/ CheckScriptTicket /\ UNCHANGED <<processor, reply_vars, batch_vars, main_vars, unit_vars,
                                        run_vars, parse_vars>>
    \/ CloseScriptTicket /\ UNCHANGED <<processor, reply_vars, batch_vars, main_vars, unit_vars,
                                        run_vars, parse_vars>>

\* each script handles one ticket, in any order
SpecScripts == InitScriptsSpec /\ [][NextScripts]_vars

\* ------------------------------------------------------------ the two agent-last scripts: claims
\* the last message of the ticket that passes validate_message, 0 when none does
LastValid(messages) ==
    LET valid == {k \in 1..Len(messages) : ValidMessage(messages[k])}
    IN  IF valid = {} THEN 0 ELSE CHOOSE k \in valid : \A j \in valid : j <= k

AgentRepliedLast(data) ==
    /\ data.found
    /\ LastValid(data.messages) # 0
    /\ data.messages[LastValid(data.messages)].sender_type = "agent_name"

ListedIff(listed, data) ==
    IF AgentRepliedLast(data) THEN listed = <<data.ticket_id>> ELSE listed = <<>>

\* C34: each script lists the ticket as agent-last exactly when the last valid
\* message of the ticket carries agent_name, so both scripts agree once both
\* have handled it, and close_ticket is called for the tickets listed and for
\* no other.
C34_AgentLastClassification ==
    /\ check_pc = "done" => ListedIff(agent_last, ticket_data)
    /\ close_pc = "done" => ListedIff(closed_last, ticket_data)
    /\ check_pc = "done" /\ close_pc = "done" => agent_last = closed_last
    /\ close_calls = closed_last

\* C34 witness: a ticket whose last message is invalid and whose last valid
\* message is the agent's, handled and closed
C34_Witness ==
    /\ check_pc = "done" /\ close_pc = "done"
    /\ ticket_data.found
    /\ Len(ticket_data.messages) = MaxMessages
    /\ ~ValidMessage(ticket_data.messages[MaxMessages])
    /\ ticket_data.messages[1].sender_type = "sender_name"
    /\ ValidMessage(ticket_data.messages[1])
    /\ close_calls = <<ticket_data.ticket_id>>

\* ------------------------------------------------------------ attempts of generate_reply in sequence
\* One attempt of generate_reply after another on the same GeminiProcessor,
\* whichever call or retry each belongs to: the seconds between two attempts are
\* 0 for calls that follow each other, and the wrapper's waits otherwise.

\* the provider calls since last_reset_time, after an attempt on p with body result b
CountProviderCall(p, b) ==
    (IF WindowRestarted(p) THEN 0 ELSE window_calls) + (IF b.called THEN 1 ELSE 0)

AttemptWith(rl, b) ==
    /\ processor' = b.processor
    /\ window_calls' = CountProviderCall(processor, b)
    /\ last_op' = [op |-> "attempt", raised |-> rl.raised, before |-> processor,
                   called |-> b.called, key |-> b.key, exc |-> b.exc]
    /\ UNCHANGED <<manager, rotation>>

\* the body of generate_reply runs once
AttemptBody ==
    \E resp \in ProviderResponses, d \in CallDurations :
        AttemptWith(check_rate_limit(processor), GenerateReplyBody(processor, resp, d))

\* time passes between two attempts
AttemptIdle ==
    /\ \E d \in IdleDelays \ {0} : processor' = Advance(processor, d)
    /\ last_op' = [op |-> "tick", raised |-> FALSE, before |-> processor]
    /\ UNCHANGED <<manager, rotation, window_calls>>

NextAttempts ==
    \/ AttemptBody /\ UNCHANGED <<reply_vars, batch_vars, main_vars, aux_vars>>
    \/ AttemptIdle /\ UNCHANGED <<reply_vars, batch_vars, main_vars, aux_vars>>

SpecAttempts == InitReplySpec /\ [][NextAttempts]_vars

\* ------------------------------------------------------------ attempts in sequence: claims
Attempted == last_op.op = "attempt"

\* C35: an attempt calls the provider only after its check_rate_limit succeeded,
\* every provider call is counted by the limiter, and no more than
\* API_CALL_LIMIT provider calls are issued between two resets of
\* last_reset_time, which are at least 60 seconds apart.
C35_ProviderCallsWithinLimit ==
    /\ Attempted /\ last_op.called => ~last_op.raised
    /\ Attempted /\ last_op.raised => ~last_op.called /\ last_op.exc = "RateLimitExceededError"
    /\ window_calls = processor.api_call_count
    /\ window_calls <= API_CALL_LIMIT

\* C35 witness: the limiter is full after rotations inside the window, and the
\* attempt was rejected without a provider call
C35_Witness ==
    /\ Attempted /\ last_op.raised /\ ~last_op.called
    /\ window_calls = API_CALL_LIMIT
    /\ processor.since_reset < WINDOW
    /\ processor.current_key_index # 0

\* C36: the client is configured with the current credential of the pool
\* whenever an attempt starts, so every provider call is issued with the
\* credential the cursor is on, and it is configured with it again after every
\* rotation.
C36_ConfiguredKeyIsCurrent ==
    /\ processor.configured_key = get_current_key(processor)
    /\ Attempted /\ last_op.called => last_op.key = get_current_key(last_op.before)

\* C36 witness: a provider call issued with the second credential, after the
\* rotation of an earlier attempt
C36_Witness ==
    /\ Attempted /\ last_op.called
    /\ last_op.before.current_key_index = 1
    /\ last_op.key = KeyNames[2]
    /\ last_op.exc = "none"

\* ------------------------------------------------------------ process_tickets_batch: what it returns
\* C37: process_tickets_batch never raises, and the list it returns holds the
\* tickets it was handed, each once and in their order, each with a next_reply
\* of exactly one entry.
C37_BatchReturnsEveryTicketOnce ==
    /\ batch_pc # "raised"
    /\ batch_pc = "returned" =>
          /\ Len(batch_out) = Len(tickets)
          /\ \A k \in 1..Len(tickets) :
                /\ batch_out[k].ticket_id = tickets[k].ticket_id
                /\ Len(batch_out[k].next_reply) = 1

\* C37 witness: a batch of MaxBatchLen tickets has returned, the first with a
\* generated reply and the last after generate_reply failed
C37_Witness ==
    /\ batch_pc = "returned"
    /\ Len(tickets) = MaxBatchLen
    /\ batch_out[1].next_reply[1].content = <<"Hello", "[", "name", "]", "JAMB Support">>
    /\ last_result.kind = "raise"
    /\ batch_out[MaxBatchLen].ticket_id = MaxBatchLen

\* ------------------------------------------------------------ generate_reply: a rejected reply
\* the last attempt called the provider, which answered with a text that
\* parse_and_validate_reply rejects
ReplyRejected ==
    /\ last_attempt.called
    /\ last_attempt.err = "none"
    /\ ~parse_and_validate_reply(last_attempt.text).ok

\* C38: a reply that parse_and_validate_reply rejects leaves the attempt as
\* APIResponseValidationError; the wrapper does not retry it, generate_reply
\* raises it to its caller, and the credential cursor and the configured
\* credential stay where they were.
C38_RejectedReplyNotRetried ==
    ReplyRejected =>
        /\ last_attempt.exc = "APIResponseValidationError"
        /\ reply_pc = "done"
        /\ result = Raised("APIResponseValidationError", "APIResponseValidationError")
        /\ last_attempt.index_after = last_attempt.index_before
        /\ processor.current_key_index = last_attempt.index_before
        /\ processor.configured_key = get_current_key(processor)

\* C38 witness: after a rotation and a retry, the provider answered with the
\* envelope, which has no key starting with Hello
C38_Witness ==
    /\ ReplyRejected
    /\ last_attempt.text = R_ENVELOPE
    /\ attempt > 1
    /\ calls = attempt
    /\ last_attempt.index_before # start_index

=============================================================================
